---- MODULE Spec2Model ----
(***************************************************************************)
(* PrWebSocket (src/src/WebSocket.ts): a WebSocket wrapper with a connect  *)
(* timeout, a heartbeat interval and a timer-driven, budgeted reconnect.   *)
(*                                                                         *)
(* The host is a single-threaded event loop: every action below is one     *)
(* task of that loop (a public call, a socket event with its listeners, a  *)
(* timer expiry), run to completion together with the microtasks it        *)
(* releases.  Raw sockets are numbered in creation order; timers are       *)
(* identified per kind: connect-timeout and heartbeat timers by the socket  *)
(* whose connect()/open armed them.  Reconnect timers all run the same     *)
(* callback, so of them the model keeps whether the one the handle names   *)
(* is live and how many others (armed earlier, never cancelled) are live.  *)
(***************************************************************************)
EXTENDS Integers, Sequences, FiniteSets, TLC

\* ---------------------------------------------------------------- bounds
MaxSockets == 2      \* raw sockets created in one run
MaxOrphans == 1      \* live reconnect timers that no handle names any more
MaxTime    == 3      \* last clock value (Date.now() in abstract units)

\* ------------------------------------------------------ program constants
Unlimited     == -1      \* sentinel of reconnectCount / reconnectTime / timestamp
NormalClosure == 1000    \* default close code
AbnormalClosure == 1006  \* the close code of a failed connection
OPEN       == 1          \* WebSocket.readyState of an open socket
CONNECTING == OPEN - 1
CLOSING    == OPEN + 1
CLOSED     == OPEN + 2

\* configurations the constructor is given
ReconnectCounts == {-1, 0, 1}
ReconnectTimes  == {-1, 1}
CloseCodes      == {NormalClosure, AbnormalClosure}

VARIABLES
  opts,                       \* #options (the modelled fields)
  now,                        \* Date.now()
  ws,                         \* this.ws: socket number, 0 = undefined
  socks,                      \* every raw socket created so far
  surplusReconnectCount,      \* #surplusReconnectCount
  maxReconnectionTimeStamp,   \* #maxReconnectionTimeStamp
  connectTimer,               \* #connectTimer handle (0 = none yet)
  reconnectIntervalTimer,     \* live timer #reconnectIntervalTimer names: 0 or 1
  heartbeatIntervalTimer,     \* #heartbeatIntervalTimer handle
  permanentClosed,            \* #permanentClosed
  connectTimers,              \* live connect-timeout timers of the host
  reconnectOrphans,           \* live reconnect timers the handle no longer names
  heartbeatTimers,            \* live heartbeat intervals of the host
  attempts,                   \* timer-driven connect() calls since the last open
  ev                          \* what the last task did (observation only)

vars == <<opts, now, ws, socks, surplusReconnectCount, maxReconnectionTimeStamp,
          connectTimer, reconnectIntervalTimer, heartbeatIntervalTimer,
          permanentClosed, connectTimers, reconnectOrphans, heartbeatTimers,
          attempts, ev>>

Max(a, b) == IF a >= b THEN a ELSE b

\* The manager and host state as one record, so that a handler's calls compose.
Cur ==
  [ws |-> ws, socks |-> socks,
   surplusReconnectCount |-> surplusReconnectCount,
   maxReconnectionTimeStamp |-> maxReconnectionTimeStamp,
   connectTimer |-> connectTimer,
   reconnectIntervalTimer |-> reconnectIntervalTimer,
   heartbeatIntervalTimer |-> heartbeatIntervalTimer,
   permanentClosed |-> permanentClosed,
   connectTimers |-> connectTimers,
   reconnectOrphans |-> reconnectOrphans,
   heartbeatTimers |-> heartbeatTimers,
   attempts |-> attempts,
   ev |-> ev]

Commit(m) ==
  /\ ws' = m.ws
  /\ socks' = m.socks
  /\ surplusReconnectCount' = m.surplusReconnectCount
  /\ maxReconnectionTimeStamp' = m.maxReconnectionTimeStamp
  /\ connectTimer' = m.connectTimer
  /\ reconnectIntervalTimer' = m.reconnectIntervalTimer
  /\ heartbeatIntervalTimer' = m.heartbeatIntervalTimer
  /\ permanentClosed' = m.permanentClosed
  /\ connectTimers' = m.connectTimers
  /\ reconnectOrphans' = m.reconnectOrphans
  /\ heartbeatTimers' = m.heartbeatTimers
  /\ attempts' = m.attempts
  /\ ev' = m.ev

\* The observation record of a task that has just started.
Begin(m, op, code) ==
  [m EXCEPT !.ev =
     [op |-> op, code |-> code,
      outcome |-> "none",      \* of the reconnect procedure, if it ran
      chk |-> "none",          \* what checkReconnect returned, if invoked
      stopCb |-> 0,            \* onReconnectStop invocations
      successCb |-> 0,         \* onReconnectSuccess invocations
      sent |-> "none",         \* what became of a payload
      reset |-> FALSE,         \* an open listener changed a budget
      threw |-> "none"]]       \* what became of a failure of a user callback

\* ------------------------------------------------------------- the promise
\* resolve()/reject() of the Promise of one connect() call: only the first
\* counts, and it releases whoever awaits the promise.
Settle(m, s, how) ==
  IF m.socks[s].promise = "pending"
  THEN [m EXCEPT !.socks[s].promise = how, !.socks[s].awaiter = "gone"]
  ELSE m

\* ----------------------------------------------------------------- #clear
clear(m) ==
  [m EXCEPT !.reconnectIntervalTimer = 0,
            !.heartbeatTimers = @ \ {m.heartbeatIntervalTimer}]

\* --------------------------------------------------------- #initHeartbeat
initHeartbeat(m, s) ==
  [m EXCEPT !.heartbeatTimers = @ \cup {s},
            !.heartbeatIntervalTimer = s]

\* ---------------------------------------------------------------- connect
\* (variant: connect() revives a closed manager)
connect_Revives(m, awaiter) ==
  LET s == Len(m.socks) + 1 IN
  [m EXCEPT !.socks = Append(@, [readyState |-> CONNECTING,
                                  promise |-> "pending",
                                  awaiter |-> awaiter]),
            !.ws = s,
            !.connectTimers = @ \cup {s},
            !.connectTimer = s,
            !.permanentClosed = FALSE]

\* new WebSocket, listeners, and the connect-timeout timer; awaiter names who
\* awaits the returned promise ("caller", "timer", "send").
connect(m, awaiter) ==
  LET s == Len(m.socks) + 1 IN
  [m EXCEPT !.socks = Append(@, [readyState |-> CONNECTING,
                                  promise |-> "pending",
                                  awaiter |-> awaiter]),
            !.ws = s,
            !.connectTimers = @ \cup {s},
            !.connectTimer = s]

\* this.ws?.send(data), as the raw socket treats it.
rawSend(m) ==
  IF m.ws = 0 THEN [m EXCEPT !.ev.sent = "dropped"]
  ELSE IF m.socks[m.ws].readyState = CONNECTING THEN [m EXCEPT !.ev.sent = "throws"]
  ELSE IF m.socks[m.ws].readyState = OPEN THEN [m EXCEPT !.ev.sent = "sent"]
  ELSE [m EXCEPT !.ev.sent = "discarded"]

\* ------------------------------------------------- #checkReconnectionTime
\* (variant: the timestamp is recomputed at every call)
checkReconnectionTime_Recomputed(m, t) ==
  [m EXCEPT !.maxReconnectionTimeStamp = t + opts.reconnectTime]

\* The state after the call; its result is checkTimeOk of that state.
checkReconnectionTime(m, t) ==
  IF m.maxReconnectionTimeStamp = Unlimited
  THEN [m EXCEPT !.maxReconnectionTimeStamp = t + opts.reconnectTime]
  ELSE m

checkTimeOk(m, t) == ~(t > m.maxReconnectionTimeStamp)

\* -------------------------------------------------------------- reconnect
\* (variant: the stop is not reported to options.onReconnectStop)
onReconnectStop_NoCallback(m, why) ==
  [m EXCEPT !.ev.outcome = why]

onReconnectStop(m, why) ==
  [m EXCEPT !.ev.outcome = why, !.ev.stopCb = @ + 1]

\* window.setTimeout(...) stored in #reconnectIntervalTimer: a timer the handle
\* named before stays live, and nothing names it any more.
armReconnect(m) ==
  [m EXCEPT !.reconnectOrphans = @ + m.reconnectIntervalTimer,
            !.reconnectIntervalTimer = 1,
            !.ev.outcome = "armed"]

\* (variant: the result of checkReconnect is not acted upon)
reconnect_VetoIgnored(m, t, check) ==
  LET m1 == checkReconnectionTime(m, t) IN
  IF ~checkTimeOk(m1, t) THEN onReconnectStop(m1, "stop_time")
  ELSE IF m1.surplusReconnectCount # Unlimited /\ m1.surplusReconnectCount = 0
       THEN onReconnectStop(m1, "stop_count")
  ELSE armReconnect([m1 EXCEPT !.ev.chk = IF check THEN "true" ELSE "false"])

\* (variant: checkReconnect is consulted before the budgets)
reconnect_CheckFirst(m, t, check) ==
  IF ~check THEN onReconnectStop([m EXCEPT !.ev.chk = "false"], "stop_veto")
  ELSE LET m1 == checkReconnectionTime([m EXCEPT !.ev.chk = "true"], t) IN
       IF ~checkTimeOk(m1, t) THEN onReconnectStop(m1, "stop_time")
       ELSE IF m1.surplusReconnectCount # Unlimited /\ m1.surplusReconnectCount = 0
            THEN onReconnectStop(m1, "stop_count")
       ELSE armReconnect(m1)

\* check is what checkReconnect(e) returns if it is invoked.
reconnect(m, t, check) ==
  LET m1 == checkReconnectionTime(m, t) IN
  IF ~checkTimeOk(m1, t) THEN onReconnectStop(m1, "stop_time")
  ELSE IF m1.surplusReconnectCount # Unlimited /\ m1.surplusReconnectCount = 0
       THEN onReconnectStop(m1, "stop_count")
  ELSE IF ~check
       THEN onReconnectStop([m1 EXCEPT !.ev.chk = "false"], "stop_veto")
  ELSE armReconnect([m1 EXCEPT !.ev.chk = "true"])

\* (variant: the counter is not decremented)
reconnectTimerCallback_NoDecrement(m) ==
  connect([m EXCEPT !.attempts = @ + 1], "timer")

\* (variant: the decrement has no floor)
reconnectTimerCallback_NoFloor(m) ==
  connect([m EXCEPT !.surplusReconnectCount = @ - 1,
                    !.attempts = @ + 1], "timer")

\* the reconnect timer's callback, up to its await
reconnectTimerCallback(m) ==
  connect([m EXCEPT !.surplusReconnectCount = Max(-1, @ - 1),
                    !.attempts = @ + 1], "timer")

\* ---------------------------------------------------------- the listeners
\* (variant: the open listener resets the counter only)
resetBudgets_CountOnly(m) ==
  [m EXCEPT !.surplusReconnectCount = opts.reconnectCount,
            !.attempts = 0]

\* the two assignments of the open listener
resetBudgets(m) ==
  [m EXCEPT !.surplusReconnectCount = opts.reconnectCount,
            !.maxReconnectionTimeStamp = Unlimited,
            !.attempts = 0]

\* (variant: the open listener itself reports every open as a reconnect success)
onOpen_SuccessForAll(m, s) ==
  LET awaiter == m.socks[s].awaiter
      m1 == resetBudgets(
              [m EXCEPT !.connectTimers = @ \ {m.connectTimer},
                        !.ev.reset = (m.surplusReconnectCount # opts.reconnectCount
                                      \/ m.maxReconnectionTimeStamp # Unlimited)])
      m2 == Settle(initHeartbeat(m1, s), s, "resolved")
      m3 == [m2 EXCEPT !.ev.successCb = @ + 1]
  IN IF awaiter = "send" THEN rawSend(m3) ELSE m3

\* 'open' listener of socket s, then the continuation its resolve() releases.
onOpen(m, s) ==
  LET awaiter == m.socks[s].awaiter
      m1 == resetBudgets(
              [m EXCEPT !.connectTimers = @ \ {m.connectTimer},
                        !.ev.reset = (m.surplusReconnectCount # opts.reconnectCount
                                      \/ m.maxReconnectionTimeStamp # Unlimited)])
      m2 == Settle(initHeartbeat(m1, s), s, "resolved")
  IN IF awaiter = "timer" THEN [m2 EXCEPT !.ev.successCb = @ + 1]
     ELSE IF awaiter = "send" THEN rawSend(m2)
     ELSE m2

\* 'error' listener of socket s
onError(m, s) ==
  Settle([m EXCEPT !.connectTimers = @ \ {m.connectTimer}], s, "rejected")

\* (variant: the close listener does not look at #permanentClosed)
onClose_PermanentIgnored(m, s, code, t, check) ==
  reconnect(clear(m), t, check)

\* 'close' listener of socket s
onClose(m, s, code, t, check) ==
  LET m1 == clear(m) IN
  IF ~m1.permanentClosed
  THEN reconnect(m1, t, check)
  ELSE [m1 EXCEPT !.ws = 0, !.ev.outcome = "terminal"]

\* A user callback invoked in the task throws.  onReconnectStop is called bare
\* inside the executor of reconnect()'s promise: the failure leaves the call
\* site, skips resolve(msg) and rejects that promise, which the close listener
\* returns to nobody.  onReconnectSuccess is awaited inside try/catch and the
\* failure is logged.  Neither path touches the manager's fields afterwards.
callbackThrows(m) ==
  IF m.ev.stopCb > 0 THEN [m EXCEPT !.ev.threw = "escaped"]
  ELSE IF m.ev.successCb > 0 THEN [m EXCEPT !.ev.threw = "caught"]
  ELSE m

\* ------------------------------------------------------------ sendMessage
sendCreates(m) ==
  (m.ws = 0 \/ m.socks[m.ws].readyState # OPEN) /\ opts.autoConnect

sendMessage(m) ==
  IF m.ws = 0 \/ m.socks[m.ws].readyState # OPEN
  THEN IF opts.autoConnect
       THEN connect(m, "send")      \* the payload waits for the open
       ELSE rawSend(m)
  ELSE rawSend(m)

\* ------------------------------------------------------------------ close
\* (variant: without the test of this.ws)
close_Unguarded(m) ==
  LET m1 == clear([m EXCEPT !.permanentClosed = TRUE]) IN
  IF m.ws # 0
  THEN [m1 EXCEPT !.socks[m.ws].readyState =
                    IF @ \in {CONNECTING, OPEN} THEN CLOSING ELSE @]
  ELSE m1

close(m) ==
  IF m.ws # 0
  THEN LET m1 == clear([m EXCEPT !.permanentClosed = TRUE]) IN
       [m1 EXCEPT !.socks[m.ws].readyState =
                    IF @ \in {CONNECTING, OPEN} THEN CLOSING ELSE @]
  ELSE m

\* =================================================================== Init
Init ==
  /\ opts \in [reconnectCount : ReconnectCounts,
               reconnectTime : ReconnectTimes,
               autoConnect : BOOLEAN]
  /\ now = 1                 \* Date.now() is a positive number
  /\ ws = 0
  /\ socks = <<>>
  /\ surplusReconnectCount = opts.reconnectCount
  /\ maxReconnectionTimeStamp = Unlimited
  /\ connectTimer = 0
  /\ reconnectIntervalTimer = 0
  /\ heartbeatIntervalTimer = 0
  /\ permanentClosed = FALSE
  /\ connectTimers = {}
  /\ reconnectOrphans = 0
  /\ heartbeatTimers = {}
  /\ attempts = 0
  /\ ev = [op |-> "init", code |-> 0, outcome |-> "none", chk |-> "none",
           stopCb |-> 0, successCb |-> 0, sent |-> "none", reset |-> FALSE,
           threw |-> "none"]

\* ================================================================ actions
\* the caller calls connect()
CallConnect ==
  /\ Len(socks) < MaxSockets
  /\ Commit(connect(Begin(Cur, "connect", 0), "caller"))
  /\ UNCHANGED <<opts, now>>

\* the caller calls reconnect(e) directly
CallReconnect ==
  /\ \E check \in BOOLEAN, throws \in BOOLEAN :
       LET r == reconnect(Begin(Cur, "reconnect", 0), now, check)
       IN /\ r.reconnectOrphans <= MaxOrphans
          /\ (r.ev.chk = "none" => check)
          /\ throws => r.ev.stopCb > 0
          /\ Commit(IF throws THEN callbackThrows(r) ELSE r)
  /\ UNCHANGED <<opts, now>>

\* the caller calls sendMessage(data)
CallSend ==
  /\ sendCreates(Cur) => Len(socks) < MaxSockets
  /\ Commit(sendMessage(Begin(Cur, "send", 0)))
  /\ UNCHANGED <<opts, now>>

\* the caller calls close()
CallClose ==
  /\ Commit(close(Begin(Cur, "close", 0)))
  /\ UNCHANGED <<opts, now>>

\* socket s reports open
SockOpen ==
  /\ \E s \in 1..Len(socks), throws \in BOOLEAN :
       /\ socks[s].readyState = CONNECTING
       /\ LET r == onOpen([Begin(Cur, "sockOpen", 0)
                             EXCEPT !.socks[s].readyState = OPEN], s)
          IN /\ throws => r.ev.successCb > 0
             /\ Commit(IF throws THEN callbackThrows(r) ELSE r)
  /\ UNCHANGED <<opts, now>>

\* Socket s reports close, after an error event when the connection failed;
\* a connection that never opened fails, with the abnormal closure code.
SockClose ==
  /\ \E s \in 1..Len(socks), code \in CloseCodes, withError \in BOOLEAN,
        check \in BOOLEAN, throws \in BOOLEAN :
       /\ socks[s].readyState \in {CONNECTING, OPEN, CLOSING}
       /\ socks[s].readyState = CONNECTING => (withError /\ code = AbnormalClosure)
       /\ LET m0 == [Begin(Cur, "sockClose", code)
                       EXCEPT !.socks[s].readyState = CLOSED]
              m1 == IF withError THEN onError(m0, s) ELSE m0
              r  == onClose(m1, s, code, now, check)
          IN /\ r.reconnectOrphans <= MaxOrphans
             /\ (r.ev.chk = "none" => check)
             /\ throws => r.ev.stopCb > 0
             /\ Commit(IF throws THEN callbackThrows(r) ELSE r)
  /\ UNCHANGED <<opts, now>>

\* the connect-timeout timer of socket s expires
ConnectTimeout ==
  /\ \E s \in connectTimers :
       Commit(Settle([Begin(Cur, "connectTimeout", 0)
                        EXCEPT !.connectTimers = @ \ {s}], s, "rejected"))
  /\ UNCHANGED <<opts, now>>

\* a reconnect-delay timer expires: the one the handle names, or an older one
ReconnectTimeout ==
  /\ Len(socks) < MaxSockets
  /\ \/ /\ reconnectIntervalTimer = 1
        /\ Commit(reconnectTimerCallback([Begin(Cur, "reconnectTimeout", 0)
                                            EXCEPT !.reconnectIntervalTimer = 0]))
     \/ /\ reconnectOrphans > 0
        /\ Commit(reconnectTimerCallback([Begin(Cur, "reconnectTimeout", 0)
                                            EXCEPT !.reconnectOrphans = @ - 1]))
  /\ UNCHANGED <<opts, now>>

\* A heartbeat interval ticks.  getHeartbeatMsg() returns a non-empty payload
\* (the default producer always does; an empty one skips the tick).
HeartbeatTick ==
  /\ heartbeatTimers # {}
  /\ sendCreates(Cur) => Len(socks) < MaxSockets
  /\ Commit(sendMessage(Begin(Cur, "heartbeat", 0)))
  /\ UNCHANGED <<opts, now>>

\* Time passes.  The code reads the clock only in #checkReconnectionTime, to
\* store now + reconnectTime and to compare now with the stored timestamp, so
\* the passing of time shows only while a timestamp is stored and not yet
\* passed; the clock is advanced only then.
Tick ==
  /\ now < MaxTime
  /\ maxReconnectionTimeStamp # Unlimited
  /\ now <= maxReconnectionTimeStamp
  /\ now' = now + 1
  /\ Commit(Begin(Cur, "tick", 0))
  /\ UNCHANGED opts

Next ==
  \/ CallConnect
  \/ CallReconnect
  \/ CallSend
  \/ CallClose
  \/ SockOpen
  \/ SockClose
  \/ ConnectTimeout
  \/ ReconnectTimeout
  \/ HeartbeatTick
  \/ Tick

Spec == Init /\ [][Next]_vars


\* Reconnection driven by close notifications only: the caller never calls
\* reconnect() itself.
NextClose ==
  \/ CallConnect
  \/ CallSend
  \/ CallClose
  \/ SockOpen
  \/ SockClose
  \/ ConnectTimeout
  \/ ReconnectTimeout
  \/ HeartbeatTick
  \/ Tick

SpecClose == Init /\ [][NextClose]_vars

\* The manager left to itself after one connect(): the caller makes no further
\* call, every connecting socket eventually reports open or close, and an armed
\* reconnect timer eventually expires.
FirstConnect ==
  /\ socks = <<>>
  /\ CallConnect

Settles ==
  /\ SockOpen \/ SockClose
  /\ \E s \in 1..Len(socks) :
       socks[s].readyState = CONNECTING /\ socks'[s].readyState # CONNECTING

NextLive ==
  \/ FirstConnect
  \/ SockOpen
  \/ SockClose
  \/ ConnectTimeout
  \/ ReconnectTimeout
  \/ HeartbeatTick
  \/ Tick

SpecLive ==
  /\ Init
  /\ [][NextLive]_vars
  /\ WF_vars(Settles)
  /\ WF_vars(ReconnectTimeout)

\* ================================================================= claims
N == opts.reconnectCount
T == opts.reconnectTime

\* the reconnect procedure ran in the last task
Evaluated == ev.outcome \in {"armed", "stop_time", "stop_count", "stop_veto"}
\* the last task was a close notification that ran the reconnect procedure
CloseEvaluated == ev.op = "sockClose" /\ Evaluated
NoReconnectTimer == reconnectIntervalTimer = 0 /\ reconnectOrphans = 0
Live == {s \in 1..Len(socks) : socks[s].readyState \in {CONNECTING, OPEN}}

C2_CallerCloseNeverReconnects ==
  (ev.op = "sockClose" /\ permanentClosed) =>
    /\ ev.outcome = "terminal"
    /\ ev.chk = "none"
    /\ reconnectIntervalTimer = 0
    /\ ws = 0

C2_Witness ==
  /\ ev.op = "sockClose"
  /\ permanentClosed
  /\ ev.code = AbnormalClosure

\* C3: a close notification with the normal closure code, close() never having
\* been called, is terminal: the socket reference is discarded, the reconnect
\* procedure does not run and checkReconnect is not invoked.
C3_NormalCloseTerminal ==
  (ev.op = "sockClose" /\ ev.code = NormalClosure /\ ~permanentClosed) =>
    /\ ev.outcome = "terminal"
    /\ ev.chk = "none"
    /\ reconnectIntervalTimer = 0
    /\ ws = 0

\* C4: with reconnectTime = -1 no reconnect timestamp is ever stored and the
\* reconnect procedure never stops for the time budget.
C4_UnlimitedTime ==
  T = Unlimited =>
    /\ maxReconnectionTimeStamp = Unlimited
    /\ ev.outcome # "stop_time"

\* C5: with a finite maximum N the remaining-attempts counter stays in 0..N.
C5_CounterInRange ==
  N >= 0 => surplusReconnectCount \in 0..N

\* C6: an open notification leaves the counter at the configured maximum and
\* the reconnect timestamp unset.
C6_OpenResets ==
  ev.op = "sockOpen" =>
    /\ surplusReconnectCount = N
    /\ maxReconnectionTimeStamp = Unlimited

C6_Witness ==
  /\ ev.op = "sockOpen"
  /\ ev.reset

\* C7: a close notification whose checkReconnect returns false stops in that
\* very task: no reconnect timer is armed, no socket is created and the
\* reconnect-stopped callback is invoked once.
C7_VetoStops ==
  [][(ev'.op = "sockClose" /\ ev'.chk = "false") =>
       /\ ev'.outcome = "stop_veto"
       /\ ev'.stopCb = 1
       /\ reconnectIntervalTimer' = 0
       /\ reconnectOrphans' = reconnectOrphans
       /\ Len(socks') = Len(socks)]_vars

C7_Witness ==
  /\ ev.op = "sockClose"
  /\ ev.chk = "false"
  /\ surplusReconnectCount # 0
  /\ now <= maxReconnectionTimeStamp

\* C8: with a finite time budget T the reconnect timestamp is set by the first
\* evaluation after an open (or after construction) to that evaluation's time
\* plus T and changes only then or at an open; an evaluation later than the
\* timestamp arms no timer and invokes the reconnect-stopped callback; with
\* unlimited attempts an evaluation not later than it, and not vetoed, arms
\* the reconnect timer.
C8_Deadline ==
  [][/\ (T >= 0 /\ ev'.outcome \in {"armed", "stop_time", "stop_count", "stop_veto"}) =>
          /\ maxReconnectionTimeStamp' =
               IF maxReconnectionTimeStamp = Unlimited
               THEN now + T ELSE maxReconnectionTimeStamp
          /\ now > maxReconnectionTimeStamp' =>
               /\ ev'.outcome = "stop_time"
               /\ ev'.stopCb = 1
               /\ reconnectIntervalTimer' <= reconnectIntervalTimer
               /\ reconnectOrphans' = reconnectOrphans
          /\ (now <= maxReconnectionTimeStamp' /\ N = Unlimited /\ ev'.chk # "false") =>
               /\ ev'.outcome = "armed"
               /\ reconnectIntervalTimer' = 1
     /\ (T >= 0 /\ maxReconnectionTimeStamp' # maxReconnectionTimeStamp) =>
          \/ ev'.op = "sockOpen"
          \/ /\ maxReconnectionTimeStamp = Unlimited
             /\ ev'.outcome \in {"armed", "stop_time", "stop_count", "stop_veto"}
    ]_vars

C8_Witness ==
  /\ T >= 0
  /\ N = Unlimited
  /\ attempts >= 1
  /\ ev.outcome = "stop_time"
  /\ now > maxReconnectionTimeStamp

\* C9: the heartbeat timer is armed exactly when the manager's current socket
\* is open.
C9_HeartbeatIffOpen ==
  (heartbeatTimers # {}) <=> (ws # 0 /\ socks[ws].readyState = OPEN)

\* C10: at most one raw socket of the manager is connecting or open.
C10_OneLiveSocket ==
  Cardinality(Live) <= 1

\* the program state a call or an event can change (all but the observation)
managerState == <<ws, socks, surplusReconnectCount, maxReconnectionTimeStamp,
                  connectTimer, reconnectIntervalTimer, heartbeatIntervalTimer,
                  permanentClosed, connectTimers, reconnectOrphans,
                  heartbeatTimers>>
\* the sockets whose readyState the step changes to one of the states in to
Moved(from, to) ==
  {s \in 1..Len(socks) : socks[s].readyState = from /\ socks'[s].readyState \in to}

\* C11: once permanentClosed is true no step arms a timer: no connect-timeout
\* timer, no heartbeat interval and no reconnect-delay timer comes to life.
C11_NoTimerAfterClose ==
  [][permanentClosed =>
       /\ connectTimers' \subseteq connectTimers
       /\ heartbeatTimers' \subseteq heartbeatTimers
       /\ reconnectIntervalTimer' <= reconnectIntervalTimer
       /\ reconnectOrphans' <= reconnectOrphans]_vars

\* C12: a send() while the manager's socket is not open creates exactly one
\* socket when auto-connect is enabled, and the payload is handed to no raw
\* socket in that call; with auto-connect disabled the payload is handed to
\* no raw socket and the manager state is unchanged.
C12_SendWhileNotOpen ==
  [][(ev'.op = "send" /\ (ws = 0 \/ socks[ws].readyState # OPEN)) =>
       IF opts.autoConnect
       THEN /\ Len(socks') = Len(socks) + 1
            /\ ev'.sent = "none"
       ELSE /\ ev'.sent \in {"none", "dropped"}
            /\ UNCHANGED managerState]_vars

\* C13: after a close() on a manager holding a socket no heartbeat interval
\* and no reconnect-delay timer is live.
C13_CloseCancelsTimers ==
  [][(ev'.op = "close" /\ ws # 0) =>
       /\ heartbeatTimers' = {}
       /\ reconnectIntervalTimer' = 0
       /\ reconnectOrphans' = 0]_vars

\* C14: a socket whose connect-timeout has expired (its promise is rejected
\* while it is still connecting) is abandoned: its later open arms no heartbeat, resets
\* no budget and does not make the manager Open.
C14_TimedOutSocketAbandoned ==
  [][\A s \in Moved(CONNECTING, {OPEN}) :
       socks[s].promise = "rejected" =>
         /\ heartbeatTimers' = heartbeatTimers
         /\ surplusReconnectCount' = surplusReconnectCount
         /\ maxReconnectionTimeStamp' = maxReconnectionTimeStamp
         /\ ~(ws' = s /\ socks'[s].readyState = OPEN)]_vars

\* C15: the promise of every connect() call gets exactly one resolve-or-reject:
\* an open or a failure of a connecting socket, and the expiry of its
\* connect-timeout timer, find the promise pending (no second call), and a
\* closed socket whose timer is gone has a settled promise (not zero).
C15_SettlesExactlyOnce ==
  [][/\ \A s \in Moved(CONNECTING, {OPEN, CLOSED}) : socks[s].promise = "pending"
     /\ ev'.op = "connectTimeout" =>
          \A s \in connectTimers \ connectTimers' : socks[s].promise = "pending"
     /\ \A s \in 1..Len(socks') :
          (socks'[s].readyState = CLOSED /\ s \notin connectTimers') =>
            socks'[s].promise # "pending"]_vars

\* C16 (as stated): close() with no socket, or with a held socket that is
\* already closed, changes nothing.
C16_CloseNoOpWhenClosed ==
  (ws = 0 \/ socks[ws].readyState = CLOSED) => close(Cur) = Cur

\* C16 (amended): close() is idempotent: with no socket reference it changes
\* nothing, and a second close() changes nothing the first has not; with a
\* socket reference, even to a closed socket, it sets permanentClosed and
\* cancels the timers the handles name.
C16_CloseIdempotent ==
  /\ ws = 0 => close(Cur) = Cur
  /\ close(close(Cur)) = close(Cur)
  /\ ws # 0 =>
       /\ close(Cur).permanentClosed
       /\ close(Cur).reconnectIntervalTimer = 0
       /\ close(Cur).heartbeatIntervalTimer \notin close(Cur).heartbeatTimers

C16_Witness ==
  /\ ev.op = "close"
  /\ ws # 0
  /\ socks[ws].readyState = CLOSED
  /\ permanentClosed

\* C17: with an unlimited number of attempts the counter is always -1, the
\* reconnect procedure never stops for want of attempts, and a close evaluated
\* within the time budget and not vetoed arms the reconnect timer.
C17_UnlimitedAttempts ==
  N = Unlimited =>
    /\ surplusReconnectCount = Unlimited
    /\ ev.outcome # "stop_count"
    /\ (CloseEvaluated /\ now <= maxReconnectionTimeStamp /\ ev.chk # "false") =>
         /\ ev.outcome = "armed"
         /\ reconnectIntervalTimer = 1

C17_Witness ==
  /\ N = Unlimited
  /\ CloseEvaluated
  /\ attempts >= 1
  /\ ev.outcome = "armed"

\* C18: at most one reconnect-delay timer is live.
C18_OneReconnectTimer ==
  reconnectIntervalTimer + reconnectOrphans <= 1

\* C19: the listeners of a socket cancel no connect-timeout timer but that
\* socket's own, and a heartbeat interval that ticks is not one armed for a
\* socket older than the newest.
C19_NoStaleTimer ==
  [][/\ ev'.op \in {"sockOpen", "sockClose"} =>
          \A s \in 1..Len(socks) :
            socks'[s].readyState # socks[s].readyState =>
              (connectTimers \ connectTimers') \subseteq {s}
     /\ ev'.op = "heartbeat" => Len(socks) \in heartbeatTimers]_vars

ManagerOpen == ws # 0 /\ socks[ws].readyState = OPEN
Quiescent ==
  /\ NoReconnectTimer
  /\ connectTimers = {}
  /\ heartbeatTimers = {}
  /\ Live = {}

C21_StopOrder ==
  Evaluated =>
    /\ now > maxReconnectionTimeStamp =>
         ev.outcome = "stop_time" /\ ev.chk = "none"
    /\ (now <= maxReconnectionTimeStamp /\ surplusReconnectCount = 0) =>
         ev.outcome = "stop_count" /\ ev.chk = "none"
    /\ (now <= maxReconnectionTimeStamp /\ surplusReconnectCount # 0) =>
         /\ ev.chk \in {"true", "false"}
         /\ ev.outcome = IF ev.chk = "false" THEN "stop_veto" ELSE "armed"
    /\ ev.stopCb = IF ev.outcome = "armed" THEN 0 ELSE 1

C21_Witness ==
  /\ ev.op = "sockClose"
  /\ ev.outcome = "stop_count"
  /\ ev.chk = "none"
  /\ now <= maxReconnectionTimeStamp

\* C22: the reconnect-success callback is invoked once in the task in which a
\* socket created by a reconnect timer opens while its connect() is still
\* pending, and in no other task: not at the open of a socket created by the
\* caller's connect() or by a send(), not at the open of a reconnect attempt
\* whose connect() was already rejected by its timeout, not at a failure.
C22_SuccessCallback ==
  [][ev'.successCb =
       IF \E s \in Moved(CONNECTING, {OPEN}) :
            socks[s].awaiter = "timer" /\ socks[s].promise = "pending"
       THEN 1 ELSE 0]_vars

C22_Witness ==
  /\ ev.op = "sockOpen"
  /\ ev.successCb = 1
  /\ N = Unlimited

\* C23: a failure thrown by onReconnectSuccess or onReconnectStop in a socket
\* event's listeners is caught where the callback is called: it never leaves
\* the call site.
C23_CallbackFailureContained ==
  ev.op \in {"sockOpen", "sockClose"} => ev.threw # "escaped"

\* C24: permanentClosed never goes back to false, and a close notification
\* received while it is true (also from a socket connected and opened after
\* the close()) arms no reconnect timer and invokes neither checkReconnect nor
\* the reconnect-stopped callback.
C24_PermanentClosedMonotonic ==
  [][permanentClosed =>
       /\ permanentClosed'
       /\ ev'.op = "sockClose" =>
            /\ ev'.chk = "none"
            /\ ev'.stopCb = 0
            /\ ev'.outcome = "terminal"
            /\ reconnectIntervalTimer' = 0
            /\ reconnectOrphans' = reconnectOrphans]_vars

C24_Witness ==
  /\ permanentClosed
  /\ ev.op = "sockClose"
  /\ ev.code = AbnormalClosure
  /\ ev.outcome = "terminal"
  /\ Len(socks) = 2
  /\ socks[1].readyState = CLOSED
  /\ socks[1].awaiter = "caller"
  /\ socks[2].readyState = CLOSED
  /\ socks[2].promise = "resolved"

====
